---- MODULE Spec2Model ----
(***************************************************************************)
(* A model of the timemory connector for Kokkos-Tools                      *)
(* (profiling/timemory-connector/kp_timemory.cpp).                         *)
(*                                                                         *)
(* The connector keeps, per thread, a counter handing out identifiers, a   *)
(* map from identifier to measurement bundle, and a stack of bundles.  The *)
(* Kokkos runtime calls the kokkosp_* functions on whatever thread it      *)
(* likes; every call runs to completion on its thread and touches only     *)
(* thread_local storage (and, for init/finalize, the timemory library),    *)
(* so each call is one atomic action of the calling thread.                *)
(*                                                                         *)
(* Text (std::string) is a sequence of tokens: a literal or a user-given   *)
(* name is one token, a formatted number is one token per digit.           *)
(* A uint64_t is four 16-bit limbs, most significant first, and a uint32_t *)
(* two, so that the narrowing in kokkosp_create_profile_section and the    *)
(* wrap of the counter are computed at their real widths.                  *)
(***************************************************************************)
EXTENDS Integers, Sequences, FiniteSets, TLC

(***************************************************************************)
(* Bounds of the model.                                                    *)
(***************************************************************************)
\* kokkosp_init_library calls, identifiers allocated and bundles on the
\* stacks, over all threads
MaxOps == 2
\* start() calls received by one bundle
MaxStarts == 2

\* the threads of the host runtime that call into the connector
Threads == {"T1", "T2"}

(***************************************************************************)
(* Fixed-width unsigned integers.                                          *)
(***************************************************************************)
Base == 2^16

U64Zero == <<0, 0, 0, 0>>

\* the uint64_t holding the small natural n
ToU64(n) == <<0, 0, n \div Base, n % Base>>

\* the natural a uint32_t (two limbs) holds; used on small values only
U32ToNat(s) == s[1] * Base + s[2]

\* v + 1 in uint64_t arithmetic (wraps to 0)
U64Inc(v) ==
    IF v[4] < Base - 1 THEN <<v[1], v[2], v[3], v[4] + 1>>
    ELSE IF v[3] < Base - 1 THEN <<v[1], v[2], v[3] + 1, 0>>
    ELSE IF v[2] < Base - 1 THEN <<v[1], v[2] + 1, 0, 0>>
    ELSE IF v[1] < Base - 1 THEN <<v[1] + 1, 0, 0, 0>>
    ELSE U64Zero

\* a < b as unsigned numbers of equally many limbs
RECURSIVE LimbsLess(_, _)
LimbsLess(a, b) ==
    IF a = <<>> THEN FALSE
    ELSE IF Head(a) # Head(b) THEN Head(a) < Head(b)
    ELSE LimbsLess(Tail(a), Tail(b))

\* uint64_t -> uint32_t: keeps the low 32 bits
Narrow32(v) == <<v[3], v[4]>>

\* uint32_t -> uint64_t: zero extension
Widen32(s) == <<0, 0, s[1], s[2]>>

(***************************************************************************)
(* Text.                                                                   *)
(***************************************************************************)
DigitChars == <<"0", "1", "2", "3", "4", "5", "6", "7", "8", "9",
                "a", "b", "c", "d", "e", "f">>

\* the digits of the natural n in base b (2..16), most significant first
RECURSIVE Digits(_, _)
Digits(n, b) ==
    IF n < b THEN <<DigitChars[n + 1]>>
    ELSE Digits(n \div b, b) \o <<DigitChars[(n % b) + 1]>>

\* operator<< of an unsigned integer: decimal
StreamUInt(n) == Digits(n, 10)

\* operator<< of a pointer: the address, "0x" and lower-case hexadecimal
StreamPointer(addr) == <<"0x">> \o Digits(addr, 16)

\* TIMEMORY_JOIN(delim, args...): the streamed arguments with delim between
RECURSIVE TIMEMORY_JOIN(_, _)
TIMEMORY_JOIN(delim, args) ==
    IF args = <<>> THEN <<>>
    ELSE IF Len(args) = 1 THEN args[1]
    ELSE args[1] \o delim \o TIMEMORY_JOIN(delim, Tail(args))

(***************************************************************************)
(* Inputs of the calls.                                                    *)
(***************************************************************************)
KernelNames == {<<"saxpy">>}
SectionNames == {<<"phase1">>}
RegionNames == {<<"outer">>, <<"inner">>}
DevIds == {2}
\* where a caller keeps the uint32_t that receives a section id
SecIdAddrs == {4096}
\* handles a caller passes back: every one the bounds let a thread
\* allocate, and one more that no thread ever was given
HandleArgs == {ToU64(n) : n \in 0..MaxOps}
SectionArgs == {Narrow32(h) : h \in HandleArgs}

\* the component lists profile_entry_t is compiled with: the default
\* (KP_COMPONENTS undefined), and an empty KP_COMPONENTS
DefaultBuild == <<"KokkosUserBundle">>
EmptyBuild == <<>>

\* the environment: KOKKOS_TIMEMORY_COMPONENTS unset, or set to a list of
\* entries; and the component names timemory knows
EnvComponents ==
    {[isset |-> FALSE, entries |-> <<>>],
     [isset |-> TRUE, entries |-> <<"WALL_CLOCK">>],
     [isset |-> TRUE, entries |-> <<"bogus">>]}
KnownComponents == {"wall_clock", "peak_rss", "cpu_roofline", "gpu_roofline_flops"}

VARIABLES
    profile_entry_t,    \* the component list the library was compiled with
    tim_state,          \* timemory: "fresh", "initialized" or "finalized"
    bundle_components,  \* the components KokkosUserBundle is configured with
    unique_id,          \* per thread: get_unique_id's _instance
    profile_map,        \* per thread: handle -> bundle
    section_map,        \* per thread: handle -> <<name, bundle>>
    profile_stack,      \* per thread: sequence of bundles, top last
    issued,             \* history: per thread, the identifiers handed out
    pending,            \* history: per thread, handles begun and not ended
    net_pushes,         \* history: per thread, push_region calls less the
                        \* pop_region calls that found the stack non-empty
    ninit,              \* history: kokkosp_init_library calls
    lastOp              \* history: the last call and what it removed

registry == <<unique_id, profile_map, section_map, profile_stack>>
history == <<issued, pending, net_pushes, ninit, lastOp>>
vars == <<profile_entry_t, tim_state, bundle_components, registry, history>>

(***************************************************************************)
(* The measurement bundle (tim::component_tuple): what the connector uses  *)
(* of it is construction with a name, start() and stop().                  *)
(***************************************************************************)
\* a constructor that starts the bundle it builds
NewEntryStarted(pname) ==
    [name |-> pname, starts |-> 1, stops |-> 0, running |-> TRUE]

\* profile_entry_t(pname, true)
NewEntry(pname) == [name |-> pname, starts |-> 0, stops |-> 0, running |-> FALSE]

EntryStart(e) == [e EXCEPT !.starts = @ + 1, !.running = TRUE]

EntryStop(e) == [e EXCEPT !.stops = @ + 1, !.running = FALSE]

\* profile_entry_t::size()
EntrySize == Len(profile_entry_t)

(***************************************************************************)
(* Thread-local storage and the registry helpers.  A helper takes the map  *)
(* instance it works on and gives the instance it leaves.                  *)
(***************************************************************************)
\* a static that is not thread_local: every thread resolves to one instance
get_tl_static_shared(t) == "T1"

\* the instance of a thread_local object that a call on thread t resolves to
get_tl_static(t) == t

get_profile_map(t) == get_tl_static(t)

get_section_map(t) == get_tl_static(t)

get_profile_stack(t) == get_tl_static(t)

\* ++_instance in place of _instance++
get_unique_id_preincrement(t) == U64Inc(unique_id[t])

\* the value get_unique_id returns on thread t; the counter then advances
get_unique_id(t) == unique_id[t]

get_unique_id_next(t) == [unique_id EXCEPT ![t] = U64Inc(@)]

\* unordered_map::insert: an existing key keeps its entry
create_profiler(m, pname, kernid) ==
    IF kernid \in DOMAIN m THEN m ELSE m @@ (kernid :> NewEntry(pname))

\* a destroy that finds the key and leaves it
destroy_profiler_keep(m, kernid) == m

destroy_profiler(m, kernid) ==
    IF kernid \in DOMAIN m
    THEN [k \in DOMAIN m \ {kernid} |-> m[k]]
    ELSE m

\* get_profile_map()[kernid].start(): operator[] inserts a missing key
start_profiler_subscript(m, kernid) ==
    IF kernid \in DOMAIN m
    THEN [m EXCEPT ![kernid] = EntryStart(@)]
    ELSE m @@ (kernid :> EntryStart(NewEntry(<<>>)))

start_profiler(m, kernid) ==
    IF kernid \in DOMAIN m
    THEN [m EXCEPT ![kernid] = EntryStart(@)]
    ELSE m

\* a stop that does nothing
stop_profiler_skip(m, kernid) == m

\* a stop that flips the bundle between running and stopped
stop_profiler_toggle(m, kernid) ==
    IF kernid \in DOMAIN m
    THEN [m EXCEPT ![kernid] =
            IF @.running THEN EntryStop(@) ELSE EntryStart(@)]
    ELSE m

stop_profiler(m, kernid) ==
    IF kernid \in DOMAIN m
    THEN [m EXCEPT ![kernid] = EntryStop(@)]
    ELSE m

\* the empty unordered_map
EmptyMap == [k \in {} |-> 0]

\* what a bounded run may still do: create a bundle, and start the one at h
RECURSIVE Total(_, _)
Total(f, S) ==
    IF S = {} THEN 0
    ELSE LET x == CHOOSE y \in S : TRUE IN f[x] + Total(f, S \ {x})

MayGrow ==
    ninit + Total([u \in Threads |-> Len(issued[u]) + Len(profile_stack[u])],
                  Threads) < MaxOps

MayStart(m, h) == h \in DOMAIN m => m[h].starts < MaxStarts

(***************************************************************************)
(* kokkosp_init_library: the part that selects the components.             *)
(***************************************************************************)
\* std::tolower over an entry
ToLower(entry) ==
    CASE entry = "WALL_CLOCK" -> "wall_clock"
      [] OTHER -> entry

\* whether the text of an entry holds "roofline"
HasRoofline(entry) == entry \in {"cpu_roofline", "gpu_roofline_flops"}

\* tim::get_env(name, default)
get_env(env, default) == IF env.isset THEN env.entries ELSE default

\* tim::enumerate_components: the entries that name a component
enumerate_components(entries) ==
    {entries[i] : i \in DOMAIN entries} \cap KnownComponents

\* the components the library asks for, given the environment
SelectedComponents(use_roofline, env) ==
    LET components == IF use_roofline THEN <<>> ELSE <<"wall_clock", "peak_rss">>
        env_result == get_env(env, components)
        lowered == [i \in DOMAIN env_result |-> ToLower(env_result[i])]
        joined ==
            IF use_roofline /\ ~(\E i \in DOMAIN lowered : HasRoofline(lowered[i]))
            THEN lowered \o <<"gpu_roofline_flops", "cpu_roofline">>
            ELSE lowered
    IN  enumerate_components(joined)

\* configure<profile_entry_t>: the overload taken when KokkosUserBundle is
\* one of the compiled components configures it, the other does nothing
configure(components) ==
    IF \E i \in DOMAIN profile_entry_t : profile_entry_t[i] = "KokkosUserBundle"
    THEN components
    ELSE bundle_components

\* the record of a call: its kind, its thread, whether the handle it was
\* given was a key of the caller's map, and the bundles it took out of the
\* registry (as they were when taken out)
Called(op, t, hit, removed) == [op |-> op, t |-> t, hit |-> hit, removed |-> removed]

\* The argv[0] handed to timemory_init is the c_str() of a temporary string
\* that is gone by then; what is read through it only names the output of
\* the timing library and reaches none of the variables below.
kokkosp_init_library(t, use_roofline, env) ==
    /\ MayGrow
    /\ ninit' = ninit + 1
    /\ tim_state' = "initialized"
    /\ bundle_components' = configure(SelectedComponents(use_roofline, env))
    /\ lastOp' = Called("init", t, FALSE, {})
    /\ UNCHANGED <<profile_entry_t, registry, issued, pending, net_pushes>>

\* a finalize that resets everything the thread owns
kokkosp_finalize_library_all(t) ==
    /\ profile_map' = [profile_map EXCEPT ![t] = EmptyMap]
    /\ profile_stack' = [profile_stack EXCEPT ![t] = <<>>]
    /\ unique_id' = [unique_id EXCEPT ![t] = U64Zero]
    /\ net_pushes' = [net_pushes EXCEPT ![t] = 0]
    /\ tim_state' = "finalized"
    /\ lastOp' = Called("finalize", t, FALSE,
                        {EntryStop(profile_map[t][k]) : k \in DOMAIN profile_map[t]})
    /\ UNCHANGED <<profile_entry_t, bundle_components, section_map, issued,
                   pending, ninit>>

\* a finalize that clears without stopping
StopNone(m) == m

\* for(auto& itr : get_profile_map()) itr.second.stop();
StopAll(m) == [k \in DOMAIN m |-> EntryStop(m[k])]

kokkosp_finalize_library(t) ==
    LET i == get_profile_map(t)
        stopped == StopAll(profile_map[i])
    IN  /\ profile_map' = [profile_map EXCEPT ![i] = EmptyMap]
        /\ tim_state' = "finalized"
        /\ lastOp' = Called("finalize", t, FALSE,
                            {stopped[k] : k \in DOMAIN stopped})
        /\ UNCHANGED <<profile_entry_t, bundle_components, unique_id, section_map,
                       profile_stack, issued, pending, net_pushes, ninit>>

(***************************************************************************)
(* Kernels: begin/end of parallel_for, parallel_reduce, parallel_scan.     *)
(***************************************************************************)
\* size() >= 0 in place of size() > 0
GateAlways == EntrySize >= 0

\* if_constexpr(profile_entry_t::size() > 0)
Gate == EntrySize > 0

\* a name that leaves the device id out
KernelNameNoDevice(name, devid) ==
    TIMEMORY_JOIN(<<"/">>, << <<"kokkos">>, <<"dev">>, name >>)

\* "kokkos/dev<devid>/<name>"
KernelName(name, devid) ==
    TIMEMORY_JOIN(<<"/">>,
        << <<"kokkos">>,
           TIMEMORY_JOIN(<<>>, << <<"dev">>, StreamUInt(devid) >>),
           name >>)

\* the body the three begin functions share
BeginKernel(op, t, name, devid) ==
    IF Gate
    THEN LET i == get_profile_map(t)
             pname == KernelName(name, devid)
             kernid == get_unique_id(t)
             created == create_profiler(profile_map[i], pname, kernid)
         IN  /\ MayGrow
             /\ MayStart(created, kernid)
             /\ unique_id' = get_unique_id_next(t)
             /\ profile_map' =
                    [profile_map EXCEPT ![i] = start_profiler(created, kernid)]
             /\ issued' = [issued EXCEPT ![t] = Append(@, kernid)]
             /\ pending' = [pending EXCEPT ![t] = @ \cup {kernid}]
             /\ lastOp' = Called(op, t, kernid \in DOMAIN profile_map[i], {})
             /\ UNCHANGED <<profile_entry_t, tim_state, bundle_components,
                            section_map, profile_stack, net_pushes, ninit>>
    ELSE /\ lastOp' = Called(op, t, FALSE, {})
         /\ UNCHANGED <<profile_entry_t, tim_state, bundle_components, registry,
                        issued, pending, net_pushes, ninit>>

\* the body the three end functions share
EndKernel(op, t, kernid) ==
    IF Gate
    THEN LET i == get_profile_map(t)
             stopped == stop_profiler(profile_map[i], kernid)
         IN  /\ profile_map' =
                    [profile_map EXCEPT ![i] = destroy_profiler(stopped, kernid)]
             /\ pending' = [pending EXCEPT ![t] = @ \ {kernid}]
             /\ lastOp' = Called(op, t, kernid \in DOMAIN profile_map[i],
                                 IF kernid \in DOMAIN stopped
                                 THEN {stopped[kernid]} ELSE {})
             /\ UNCHANGED <<profile_entry_t, tim_state, bundle_components,
                            unique_id, section_map, profile_stack, issued,
                            net_pushes, ninit>>
    ELSE /\ lastOp' = Called(op, t, FALSE, {})
         /\ UNCHANGED <<profile_entry_t, tim_state, bundle_components, registry,
                        issued, pending, net_pushes, ninit>>

kokkosp_begin_parallel_for(t, name, devid) == BeginKernel("begin", t, name, devid)

kokkosp_end_parallel_for(t, kernid) == EndKernel("end", t, kernid)

kokkosp_begin_parallel_reduce(t, name, devid) ==
    BeginKernel("begin", t, name, devid)

kokkosp_end_parallel_reduce(t, kernid) == EndKernel("end", t, kernid)

kokkosp_begin_parallel_scan(t, name, devid) == BeginKernel("begin", t, name, devid)

kokkosp_end_parallel_scan(t, kernid) == EndKernel("end", t, kernid)

(***************************************************************************)
(* Regions: push/pop.                                                      *)
(***************************************************************************)
\* vector::back
back(stack) == stack[Len(stack)]

\* a pop that stops the top and leaves it on the stack
pop_back_keep(stack) == stack

\* erase(begin()) in place of pop_back()
pop_front(stack) == Tail(stack)

\* vector::pop_back
pop_back(stack) == SubSeq(stack, 1, Len(stack) - 1)

kokkosp_push_profile_region(t, name) ==
    IF Gate
    THEN LET i == get_profile_stack(t)
         IN  /\ MayGrow
             /\ profile_stack' =
                    [profile_stack EXCEPT ![i] = Append(@, EntryStart(NewEntry(name)))]
             /\ net_pushes' = [net_pushes EXCEPT ![t] = @ + 1]
             /\ lastOp' = Called("push", t, FALSE, {})
             /\ UNCHANGED <<profile_entry_t, tim_state, bundle_components,
                            unique_id, profile_map, section_map, issued, pending,
                            ninit>>
    ELSE /\ lastOp' = Called("push", t, FALSE, {})
         /\ UNCHANGED <<profile_entry_t, tim_state, bundle_components, registry,
                        issued, pending, net_pushes, ninit>>

kokkosp_pop_profile_region(t) ==
    LET i == get_profile_stack(t)
    IN  IF Gate /\ profile_stack[i] # <<>>
        THEN LET stopped == EntryStop(back(profile_stack[i]))
             IN  /\ profile_stack' = [profile_stack EXCEPT ![i] = pop_back(@)]
                 /\ net_pushes' = [net_pushes EXCEPT ![t] = @ - 1]
                 /\ lastOp' = Called("pop", t, TRUE, {stopped})
                 /\ UNCHANGED <<profile_entry_t, tim_state, bundle_components,
                                unique_id, profile_map, section_map, issued,
                                pending, ninit>>
        ELSE /\ lastOp' = Called("pop", t, FALSE, {})
             /\ UNCHANGED <<profile_entry_t, tim_state, bundle_components,
                            registry, issued, pending, net_pushes, ninit>>

(***************************************************************************)
(* Sections: create/destroy/start/stop.                                    *)
(***************************************************************************)
\* the name create_profile_section builds: the argument streamed after
\* "section" is secid, the uint32_t* the caller passed
SectionName(name, secid_addr) ==
    TIMEMORY_JOIN(<<"/">>,
        << <<"kokkos">>,
           TIMEMORY_JOIN(<<>>, << <<"section">>, StreamPointer(secid_addr) >>),
           name >>)

kokkosp_create_profile_section(t, name, secid_addr) ==
    IF Gate
    THEN LET i == get_profile_map(t)
             secid == Narrow32(get_unique_id(t))
             pname == SectionName(name, secid_addr)
         IN  /\ MayGrow
             /\ unique_id' = get_unique_id_next(t)
             /\ profile_map' =
                    [profile_map EXCEPT
                        ![i] = create_profiler(@, pname, Widen32(secid))]
             /\ issued' = [issued EXCEPT ![t] = Append(@, Widen32(secid))]
             /\ lastOp' = Called("create_section", t,
                                 Widen32(secid) \in DOMAIN profile_map[i], {})
             /\ UNCHANGED <<profile_entry_t, tim_state, bundle_components,
                            section_map, profile_stack, pending, net_pushes,
                            ninit>>
    ELSE /\ lastOp' = Called("create_section", t, FALSE, {})
         /\ UNCHANGED <<profile_entry_t, tim_state, bundle_components, registry,
                        issued, pending, net_pushes, ninit>>

kokkosp_destroy_profile_section(t, secid) ==
    IF Gate
    THEN LET i == get_profile_map(t)
             kernid == Widen32(secid)
         IN  /\ profile_map' =
                    [profile_map EXCEPT ![i] = destroy_profiler(@, kernid)]
             /\ lastOp' = Called("destroy_section", t, kernid \in DOMAIN profile_map[i],
                                 IF kernid \in DOMAIN profile_map[i]
                                 THEN {profile_map[i][kernid]} ELSE {})
             /\ UNCHANGED <<profile_entry_t, tim_state, bundle_components,
                            unique_id, section_map, profile_stack, issued,
                            pending, net_pushes, ninit>>
    ELSE /\ lastOp' = Called("destroy_section", t, FALSE, {})
         /\ UNCHANGED <<profile_entry_t, tim_state, bundle_components, registry,
                        issued, pending, net_pushes, ninit>>

kokkosp_start_profile_section(t, secid) ==
    IF Gate
    THEN LET i == get_profile_map(t)
             kernid == Widen32(secid)
         IN  /\ MayStart(profile_map[i], kernid)
             /\ profile_map' =
                    [profile_map EXCEPT ![i] = start_profiler(@, kernid)]
             /\ lastOp' = Called("start_section", t, kernid \in DOMAIN profile_map[i], {})
             /\ UNCHANGED <<profile_entry_t, tim_state, bundle_components,
                            unique_id, section_map, profile_stack, issued,
                            pending, net_pushes, ninit>>
    ELSE /\ lastOp' = Called("start_section", t, FALSE, {})
         /\ UNCHANGED <<profile_entry_t, tim_state, bundle_components, registry,
                        issued, pending, net_pushes, ninit>>

\* the body calls start_profiler
kokkosp_stop_profile_section(t, secid) ==
    IF Gate
    THEN LET i == get_profile_map(t)
             kernid == Widen32(secid)
         IN  /\ MayStart(profile_map[i], kernid)
             /\ profile_map' =
                    [profile_map EXCEPT ![i] = start_profiler(@, kernid)]
             /\ lastOp' = Called("stop_section", t, kernid \in DOMAIN profile_map[i], {})
             /\ UNCHANGED <<profile_entry_t, tim_state, bundle_components,
                            unique_id, section_map, profile_stack, issued,
                            pending, net_pushes, ninit>>
    ELSE /\ lastOp' = Called("stop_section", t, FALSE, {})
         /\ UNCHANGED <<profile_entry_t, tim_state, bundle_components, registry,
                        issued, pending, net_pushes, ninit>>

(***************************************************************************)
(* The specifications.                                                     *)
(***************************************************************************)
\* the state of a process that has loaded the library and called nothing
Fresh ==
    /\ tim_state = "fresh"
    /\ bundle_components = {}
    /\ unique_id = [t \in Threads |-> U64Zero]
    /\ profile_map = [t \in Threads |-> EmptyMap]
    /\ section_map = [t \in Threads |-> EmptyMap]
    /\ profile_stack = [t \in Threads |-> <<>>]
    /\ issued = [t \in Threads |-> <<>>]
    /\ pending = [t \in Threads |-> {}]
    /\ net_pushes = [t \in Threads |-> 0]
    /\ ninit = 0
    /\ lastOp = Called("none", "none", FALSE, {})

\* a library compiled with at least one component
Init ==
    /\ profile_entry_t = DefaultBuild
    /\ Fresh

\* a library compiled with any component list, the empty one included
InitAnyBuild ==
    /\ profile_entry_t \in {DefaultBuild, EmptyBuild}
    /\ Fresh

Next ==
    \E t \in Threads :
        \/ \E r \in BOOLEAN, env \in EnvComponents : kokkosp_init_library(t, r, env)
        \/ kokkosp_finalize_library(t)
        \/ \E name \in KernelNames, devid \in DevIds :
              \/ kokkosp_begin_parallel_for(t, name, devid)
              \/ kokkosp_begin_parallel_reduce(t, name, devid)
              \/ kokkosp_begin_parallel_scan(t, name, devid)
        \/ \E kernid \in HandleArgs :
              \/ kokkosp_end_parallel_for(t, kernid)
              \/ kokkosp_end_parallel_reduce(t, kernid)
              \/ kokkosp_end_parallel_scan(t, kernid)
        \/ \E name \in RegionNames : kokkosp_push_profile_region(t, name)
        \/ kokkosp_pop_profile_region(t)
        \/ \E name \in SectionNames, a \in SecIdAddrs :
              kokkosp_create_profile_section(t, name, a)
        \/ \E secid \in SectionArgs :
              \/ kokkosp_destroy_profile_section(t, secid)
              \/ kokkosp_start_profile_section(t, secid)
              \/ kokkosp_stop_profile_section(t, secid)

\* 2^32 - 1 as a uint64_t: the last identifier that a uint32_t holds
U32Max64 == <<0, 0, Base - 1, Base - 1>>

\* handles a caller passes back late in a long run: those around 2^32, and
\* the identifier 0 of a section that was created first and kept
LateHandleArgs == {U64Zero, U32Max64, U64Inc(U32Max64), U64Inc(U64Inc(U32Max64))}
LateSectionArgs == {Narrow32(h) : h \in LateHandleArgs}

\* A process late in a long run.  Thread T1 created the section "phase1" as
\* its first allocation (identifier 0), started it and has kept it since;
\* it then ran 2^32 - 2 kernels, each begun and ended, so its counter
\* stands at 2^32 - 1.  Thread T2 has called nothing.  The history
\* variables record the run from this state on.
InitLongRun ==
    /\ profile_entry_t = DefaultBuild
    /\ tim_state = "initialized"
    /\ bundle_components = {"wall_clock", "peak_rss"}
    /\ unique_id = [t \in Threads |-> IF t = "T1" THEN U32Max64 ELSE U64Zero]
    /\ profile_map =
          [t \in Threads |->
              IF t = "T1"
              THEN U64Zero :> EntryStart(NewEntry(SectionName(<<"phase1">>, 4096)))
              ELSE EmptyMap]
    /\ section_map = [t \in Threads |-> EmptyMap]
    /\ profile_stack = [t \in Threads |-> <<>>]
    /\ issued = [t \in Threads |-> <<>>]
    /\ pending = [t \in Threads |-> {}]
    /\ net_pushes = [t \in Threads |-> 0]
    /\ ninit = 0
    /\ lastOp = Called("none", "none", FALSE, {})

NextLongRun ==
    \E t \in Threads :
        \/ \E r \in BOOLEAN, env \in EnvComponents : kokkosp_init_library(t, r, env)
        \/ kokkosp_finalize_library(t)
        \/ \E name \in KernelNames, devid \in DevIds :
              \/ kokkosp_begin_parallel_for(t, name, devid)
              \/ kokkosp_begin_parallel_reduce(t, name, devid)
              \/ kokkosp_begin_parallel_scan(t, name, devid)
        \/ \E kernid \in HandleArgs \cup LateHandleArgs :
              \/ kokkosp_end_parallel_for(t, kernid)
              \/ kokkosp_end_parallel_reduce(t, kernid)
              \/ kokkosp_end_parallel_scan(t, kernid)
        \/ \E name \in RegionNames : kokkosp_push_profile_region(t, name)
        \/ kokkosp_pop_profile_region(t)
        \/ \E name \in SectionNames, a \in SecIdAddrs :
              kokkosp_create_profile_section(t, name, a)
        \/ \E secid \in SectionArgs \cup LateSectionArgs :
              \/ kokkosp_destroy_profile_section(t, secid)
              \/ kokkosp_start_profile_section(t, secid)
              \/ kokkosp_stop_profile_section(t, secid)

SpecLongRun == InitLongRun /\ [][NextLongRun]_vars

Spec == Init /\ [][Next]_vars

SpecAnyBuild == InitAnyBuild /\ [][Next]_vars

(***************************************************************************)
(* Properties.                                                             *)
(***************************************************************************)
\* a bundle that a begin function created, and one create_profile_section did
IsKernel(e) == Len(e.name) >= 3 /\ e.name[3] = "dev"

IsSection(e) == Len(e.name) >= 3 /\ e.name[3] = "section"

HandleCalls == {"end", "start_section", "stop_section", "destroy_section"}

\* the part of the registry that belongs to thread t
RegistryOf(t) == <<unique_id[t], profile_map[t], section_map[t], profile_stack[t]>>

\* C1: on each thread, every bundle of the map that a begin function created
\* is keyed by a handle that has not yet been passed to an end function; so
\* once every handle begun on the thread has been ended, the map holds no
\* kernel session.
C1_MatchedPairsLeaveNoSession ==
    \A t \in Threads :
        /\ \A h \in DOMAIN profile_map[t] :
              IsKernel(profile_map[t][h]) => h \in pending[t]
        /\ pending[t] = {} =>
              \A h \in DOMAIN profile_map[t] : ~IsKernel(profile_map[t][h])

\* two handles were begun on a thread, both have been ended, the last call
\* being the end that removed a session, and the thread's map is empty
C1_Witness ==
    \E t \in Threads :
        /\ Len(issued[t]) = 2
        /\ pending[t] = {}
        /\ lastOp.op = "end" /\ lastOp.t = t /\ lastOp.hit
        /\ \E e \in lastOp.removed : IsKernel(e)
        /\ profile_map[t] = EmptyMap

\* C2: stop_section on a section that was created and started once stops it:
\* afterwards it has been started once, stopped once, and is not running.
C2_StopSectionStops ==
    [][\A t \in Threads, secid \in SectionArgs :
          LET k == Widen32(secid) IN
          ( /\ kokkosp_stop_profile_section(t, secid)
            /\ k \in DOMAIN profile_map[t]
            /\ IsSection(profile_map[t][k])
            /\ profile_map[t][k].starts = 1
            /\ profile_map[t][k].stops = 0
            /\ profile_map[t][k].running )
          => ( /\ k \in DOMAIN profile_map'[t]
               /\ profile_map'[t][k].starts = 1
               /\ profile_map'[t][k].stops = 1
               /\ ~profile_map'[t][k].running )]_vars

\* C3: a call of end_for/end_reduce/end_scan, start_section, stop_section or
\* destroy_section with a value that is no key of the caller's map changes
\* no counter, map or stack, and takes no bundle out of the registry.
C3_AbsentHandleIsNoOp ==
    [][(lastOp'.op \in HandleCalls /\ ~lastOp'.hit)
          => ( /\ UNCHANGED registry
               /\ lastOp'.removed = {} )]_vars

\* a handle call has missed on a thread whose map and stack hold bundles
C3_Witness ==
    /\ lastOp.op \in HandleCalls
    /\ ~lastOp.hit
    /\ lastOp.t \in Threads
    /\ profile_map[lastOp.t] # EmptyMap
    /\ profile_stack[lastOp.t] # <<>>

\* C4: on each thread the depth of the region stack is the number of
\* push_region calls less the number of pop_region calls made while the
\* stack was non-empty; a pop_region on an empty stack changes nothing.
C4_StackDepth ==
    /\ [](\A t \in Threads : Len(profile_stack[t]) = net_pushes[t])
    /\ [][\A t \in Threads :
            (lastOp'.op = "pop" /\ lastOp'.t = t /\ profile_stack[t] = <<>>)
            => ( /\ UNCHANGED <<registry, issued, pending, net_pushes>>
                 /\ profile_stack'[t] = <<>> )]_vars

\* two pushes and one pop on a thread: the depth is 1
C4_Witness ==
    \E t \in Threads :
        /\ lastOp.op = "pop" /\ lastOp.t = t /\ lastOp.hit
        /\ net_pushes[t] = 1
        /\ Len(profile_stack[t]) = 1

\* C5: push_region puts a started bundle on top of the stack, pop_region
\* stops and removes the top one and leaves the others as they were, and
\* every bundle on a stack has been started once and not stopped.
C5_StackIsLifo ==
    /\ [](\A t \in Threads : \A i \in DOMAIN profile_stack[t] :
            /\ profile_stack[t][i].running
            /\ profile_stack[t][i].starts = 1
            /\ profile_stack[t][i].stops = 0)
    /\ [][\A t \in Threads :
            /\ (lastOp'.op = "pop" /\ lastOp'.t = t /\ profile_stack[t] # <<>>)
               => ( /\ profile_stack'[t] =
                        SubSeq(profile_stack[t], 1, Len(profile_stack[t]) - 1)
                    /\ lastOp'.removed =
                        {EntryStop(profile_stack[t][Len(profile_stack[t])])} )
            /\ (lastOp'.op = "push" /\ lastOp'.t = t)
               => \E name \in RegionNames :
                     profile_stack'[t] =
                        Append(profile_stack[t], EntryStart(NewEntry(name)))]_vars

\* a pop has removed the later of two different bundles, the earlier stays
C5_Witness ==
    \E t \in Threads :
        /\ lastOp.op = "pop" /\ lastOp.t = t
        /\ Len(profile_stack[t]) = 1
        /\ \E e \in lastOp.removed : e.name # profile_stack[t][1].name

\* C6: on each thread the identifiers handed out start at 0 and each is
\* greater than all handed out before it on that thread.
C6_IdsStartAtZeroAndIncrease ==
    \A t \in Threads :
        /\ issued[t] # <<>> => issued[t][1] = U64Zero
        /\ \A i, j \in DOMAIN issued[t] :
              i < j => LimbsLess(issued[t][i], issued[t][j])

\* a thread has been handed two identifiers, the later by create_section
C6_Witness ==
    \E t \in Threads :
        /\ Len(issued[t]) = 2
        /\ lastOp.op = "create_section" /\ lastOp.t = t

\* C7: a call made on one thread leaves every other thread's counter, maps
\* and stack, and so every bundle they hold, as they were.
C7_ThreadsAreIsolated ==
    [][\A t \in Threads : lastOp'.t # t => UNCHANGED RegistryOf(t)]_vars

\* T2 has made a handle call or finalize while T1 holds a started session
\* in its map and one on its stack
C7_Witness ==
    /\ lastOp.t = "T2"
    /\ lastOp.op \in HandleCalls \cup {"finalize"}
    /\ \E h \in DOMAIN profile_map["T1"] : profile_map["T1"][h].running
    /\ profile_stack["T1"] # <<>>

\* C8: finalize on a thread stops every bundle of that thread's map, empties
\* the map and finalizes timemory; an end call that follows it on the
\* thread, whatever its handle, changes nothing.
C8_FinalizeSweeps ==
    [][\A t \in Threads :
          /\ (lastOp'.op = "finalize" /\ lastOp'.t = t)
             => ( /\ lastOp'.removed =
                      {EntryStop(profile_map[t][k]) : k \in DOMAIN profile_map[t]}
                  /\ \A e \in lastOp'.removed : ~e.running /\ e.stops >= 1
                  /\ profile_map'[t] = EmptyMap
                  /\ tim_state' = "finalized" )
          /\ ( /\ lastOp.op = "finalize" /\ lastOp.t = t
               /\ lastOp'.op = "end" /\ lastOp'.t = t )
             => (UNCHANGED registry /\ lastOp'.removed = {})]_vars

\* finalize has swept a session whose handle was begun and never ended
C8_Witness ==
    /\ lastOp.op = "finalize"
    /\ lastOp.t \in Threads
    /\ \E e \in lastOp.removed : IsKernel(e)
    /\ pending[lastOp.t] # {}
    /\ profile_map[lastOp.t] = EmptyMap

\* the registry holds nothing and no identifier was ever allocated
RegistryUntouched ==
    \A t \in Threads :
        /\ profile_map[t] = EmptyMap
        /\ section_map[t] = EmptyMap
        /\ profile_stack[t] = <<>>
        /\ unique_id[t] = U64Zero

\* C9, as stated: when the compiled component list is empty, or the set
\* that kokkosp_init_library selected is, the maps and stacks stay empty.
C9_CompiledOrSelectedEmpty ==
    (EntrySize = 0 \/ (ninit > 0 /\ bundle_components = {}))
        => \A t \in Threads : profile_map[t] = EmptyMap /\ profile_stack[t] = <<>>

\* C9, amended: when the compiled component list is empty the maps and
\* stacks stay empty, no identifier is allocated and no bundle is built.
C9_CompiledEmpty ==
    EntrySize = 0 => (RegistryUntouched /\ lastOp.removed = {})

\* a begin, push or create_section call was made under the empty build
C9_Witness ==
    /\ EntrySize = 0
    /\ lastOp.op \in {"begin", "push", "create_section"}

\* "kokkos/section<id>/<name>", with the decimal section id
QualifiedSectionName(name, secid) ==
    TIMEMORY_JOIN(<<"/">>,
        << <<"kokkos">>,
           TIMEMORY_JOIN(<<>>, << <<"section">>, StreamUInt(U32ToNat(secid)) >>),
           name >>)

\* C10: the bundle create_section registers is keyed by the id it writes
\* back and named "kokkos/section<id>/<name>" with that same id.
C10_SectionNameEmbedsId ==
    \A t \in Threads :
        (lastOp.op = "create_section" /\ lastOp.t = t /\ ~lastOp.hit)
        => LET id == issued[t][Len(issued[t])] IN
           /\ id \in DOMAIN profile_map[t]
           /\ \E name \in SectionNames :
                 profile_map[t][id].name = QualifiedSectionName(name, Narrow32(id))

\* "kokkos/dev<devid>/<name>", with the decimal device id
QualifiedKernelName(name, devid) ==
    <<"kokkos", "/", "dev">> \o StreamUInt(devid) \o <<"/">> \o name

\* C11: a begin_for/begin_reduce/begin_scan call hands out an identifier h
\* that the thread was never handed before and that is no key of its map,
\* adds to the caller's map one bundle keyed by h, named
\* "kokkos/dev<devid>/<name>" and started once, and leaves the other entries
\* of the map and the region stack as they were.
C11_BeginCreatesAndStarts ==
    [][\A t \in Threads :
          (lastOp'.op = "begin" /\ lastOp'.t = t)
          => LET h == issued'[t][Len(issued'[t])] IN
             /\ issued'[t] = Append(issued[t], h)
             /\ \A i \in DOMAIN issued[t] : issued[t][i] # h
             /\ h \notin DOMAIN profile_map[t]
             /\ DOMAIN profile_map'[t] = DOMAIN profile_map[t] \cup {h}
             /\ \E name \in KernelNames, devid \in DevIds :
                   profile_map'[t][h] =
                      [name |-> QualifiedKernelName(name, devid),
                       starts |-> 1, stops |-> 0, running |-> TRUE]
             /\ \A k \in DOMAIN profile_map[t] :
                   profile_map'[t][k] = profile_map[t][k]
             /\ profile_stack'[t] = profile_stack[t]]_vars

\* a begin call has added a started kernel session, under the second
\* identifier of the thread, to a map that already held a section
C11_Witness ==
    \E t \in Threads :
        /\ lastOp.op = "begin" /\ lastOp.t = t
        /\ Len(issued[t]) = 2
        /\ \E k \in DOMAIN profile_map[t] : IsSection(profile_map[t][k])
        /\ LET h == issued[t][2] IN
           /\ h \in DOMAIN profile_map[t]
           /\ IsKernel(profile_map[t][h])
           /\ profile_map[t][h].running

\* what a map says of its sessions: which keys are live, under which name,
\* and whether each is running
Status(m) == [k \in DOMAIN m |-> [name |-> m[k].name, running |-> m[k].running]]

\* C12: stop, destroy and end are idempotent per handle.  For every
\* reachable map and every handle, a second stop_profiler, a second
\* destroy_profiler and a second stop-then-destroy leave the keys and the
\* running status of every session as the first left them.  For the calls:
\* after end(h) or destroy_section(h) the key h is gone, and the same call
\* made when h is gone changes nothing; after stop_section(h) the session,
\* if there is one, is in the status the call leaves it in, and the same
\* call made in that status changes no key and no status.
C12_StopDestroyIdempotent ==
    /\ [](\A t \in Threads, h \in HandleArgs :
            LET m == profile_map[t]
                stopped == stop_profiler(m, h)
                destroyed == destroy_profiler(m, h)
                ended == destroy_profiler(stop_profiler(m, h), h)
            IN  /\ Status(stop_profiler(stopped, h)) = Status(stopped)
                /\ destroy_profiler(destroyed, h) = destroyed
                /\ destroy_profiler(stop_profiler(ended, h), h) = ended)
    /\ [][\A t \in Threads :
            /\ (lastOp'.op = "end" /\ lastOp'.t = t)
               => \A h \in HandleArgs :
                     EndKernel("end", t, h)
                     => /\ h \notin DOMAIN profile_map'[t]
                        /\ h \notin DOMAIN profile_map[t]
                           => (UNCHANGED registry /\ lastOp'.removed = {})
            /\ (lastOp'.op = "destroy_section" /\ lastOp'.t = t)
               => \A secid \in SectionArgs :
                     kokkosp_destroy_profile_section(t, secid)
                     => /\ Widen32(secid) \notin DOMAIN profile_map'[t]
                        /\ Widen32(secid) \notin DOMAIN profile_map[t]
                           => (UNCHANGED registry /\ lastOp'.removed = {})
            /\ (lastOp'.op = "stop_section" /\ lastOp'.t = t)
               => \A secid \in SectionArgs :
                     LET k == Widen32(secid)
                         Settled(m) == k \in DOMAIN m => m[k].running
                     IN  kokkosp_stop_profile_section(t, secid)
                         => /\ Settled(profile_map'[t])
                            /\ Settled(profile_map[t])
                               => /\ Status(profile_map'[t]) = Status(profile_map[t])
                                  /\ UNCHANGED <<unique_id, section_map,
                                                 profile_stack>>
                                  /\ lastOp'.removed = {}]_vars

\* an end call has found no session on a thread that has been handed a
\* handle, has ended it, and holds no session any more
C12_Witness ==
    \E t \in Threads :
        /\ lastOp.op = "end" /\ lastOp.t = t /\ ~lastOp.hit
        /\ issued[t] # <<>>
        /\ pending[t] = {}
        /\ profile_map[t] = EmptyMap

\* C13: a bundle that end_for/end_reduce/end_scan takes out of the map has
\* had stop() called on it by that call and is not running when it goes: it
\* is the bundle found under the handle with one more stop; and an end call
\* that finds its handle takes exactly that bundle out.
C13_EndStopsBeforeRemoving ==
    [][\A t \in Threads :
          (lastOp'.op = "end" /\ lastOp'.t = t)
          => /\ \A e \in lastOp'.removed :
                   /\ ~e.running
                   /\ \E h \in DOMAIN profile_map[t] :
                         /\ h \notin DOMAIN profile_map'[t]
                         /\ e.name = profile_map[t][h].name
                         /\ e.starts = profile_map[t][h].starts
                         /\ e.stops = profile_map[t][h].stops + 1
             /\ lastOp'.hit => lastOp'.removed # {}
             /\ DOMAIN profile_map'[t] # DOMAIN profile_map[t]
                => lastOp'.removed # {}]_vars

\* an end call has taken out a kernel session that was started by its begin
\* call and had never been stopped before
C13_Witness ==
    /\ lastOp.op = "end"
    /\ lastOp.hit
    /\ \E e \in lastOp.removed :
          IsKernel(e) /\ e.starts = 1 /\ e.stops = 1 /\ ~e.running

\* C14: create_section registers a bundle that has received no start() and
\* no stop(); destroy_section takes the bundle out as it is, running or not,
\* without a stop(), and leaves the rest of the map alone; and a section
\* bundle that stays in a map changes only in a start_section or
\* stop_section call.
C14_SectionsStartAndStopExplicitly ==
    [][\A t \in Threads :
          /\ (lastOp'.op = "create_section" /\ lastOp'.t = t /\ ~lastOp'.hit)
             => LET k == issued'[t][Len(issued'[t])] IN
                /\ k \in DOMAIN profile_map'[t]
                /\ k \notin DOMAIN profile_map[t]
                /\ profile_map'[t][k].starts = 0
                /\ profile_map'[t][k].stops = 0
                /\ ~profile_map'[t][k].running
          /\ (lastOp'.op = "destroy_section" /\ lastOp'.t = t)
             => /\ \A e \in lastOp'.removed :
                      \E k \in DOMAIN profile_map[t] :
                         /\ k \notin DOMAIN profile_map'[t]
                         /\ e = profile_map[t][k]
                /\ lastOp'.hit => lastOp'.removed # {}
                /\ \A k \in DOMAIN profile_map'[t] :
                      /\ k \in DOMAIN profile_map[t]
                      /\ profile_map'[t][k] = profile_map[t][k]
          /\ \A k \in DOMAIN profile_map[t] \cap DOMAIN profile_map'[t] :
                (IsSection(profile_map[t][k])
                    /\ profile_map'[t][k] # profile_map[t][k])
                => (lastOp'.op \in {"start_section", "stop_section"}
                    /\ lastOp'.t = t)]_vars

\* destroy_section has taken out a section that was running and had never
\* been stopped
C14_Witness ==
    /\ lastOp.op = "destroy_section"
    /\ lastOp.hit
    /\ \E e \in lastOp.removed :
          IsSection(e) /\ e.running /\ e.starts >= 1 /\ e.stops = 0

\* C15: kernel sessions and section sessions are kept apart: an end_for/
\* end_reduce/end_scan call, whatever its argument, leaves every section
\* bundle of the caller's map in place and as it was, and a start_section,
\* stop_section or destroy_section call, whatever its argument, leaves every
\* kernel bundle in place and as it was.
C15_KernelAndSectionMapsSeparate ==
    [][\A t \in Threads :
          /\ (lastOp'.op = "end" /\ lastOp'.t = t)
             => \A k \in DOMAIN profile_map[t] :
                   IsSection(profile_map[t][k])
                   => /\ k \in DOMAIN profile_map'[t]
                      /\ profile_map'[t][k] = profile_map[t][k]
          /\ ( /\ lastOp'.op \in {"start_section", "stop_section", "destroy_section"}
               /\ lastOp'.t = t )
             => \A k \in DOMAIN profile_map[t] :
                   IsKernel(profile_map[t][k])
                   => /\ k \in DOMAIN profile_map'[t]
                      /\ profile_map'[t][k] = profile_map[t][k]]_vars

\* C16: the identifier that a begin_for/begin_reduce/begin_scan call or a
\* create_section call hands out (for create_section, the 32-bit value it
\* writes back) is not already a key of the caller's map, so the call never
\* finds a session registered under it.  (No run considered here advances a
\* counter past 2^64 - 1.)
C16_HandleNeverReusedWhileLive ==
    \A t \in Threads :
        (lastOp.op \in {"begin", "create_section"} /\ lastOp.t = t)
        => /\ ~lastOp.hit
           /\ issued[t] # <<>> => issued[t][Len(issued[t])] \in DOMAIN profile_map[t]
           /\ \A i, j \in DOMAIN issued[t] :
                 (i < j /\ issued[t][i] \in DOMAIN profile_map[t])
                 => issued[t][i] # issued[t][j]

\* the identifiers thread a has been handed
IssuedTo(a) == {issued[a][i] : i \in DOMAIN issued[a]}

\* C17, as stated: an end_for/end_reduce/end_scan, start_section,
\* stop_section or destroy_section call made on thread b with a value that
\* another thread a was handed changes nothing of b's own counter, map and
\* stack, and takes no bundle out.
C17_ForeignHandleIsNoOp ==
    [][\A a, b \in Threads :
          (a # b /\ lastOp'.t = b /\ lastOp'.op \in HandleCalls)
          => \A h \in IssuedTo(a) \cap HandleArgs :
                ( \/ EndKernel("end", b, h)
                  \/ kokkosp_destroy_profile_section(b, Narrow32(h))
                  \/ kokkosp_start_profile_section(b, Narrow32(h))
                  \/ kokkosp_stop_profile_section(b, Narrow32(h)) )
                => (UNCHANGED RegistryOf(b) /\ lastOp'.removed = {})]_vars

\* C17, amended: such a call changes nothing of thread a's counter, map and
\* stack; it changes nothing of b's either when the value is no key of b's
\* own map; and when it is one (the counters of a and b both start at 0) it
\* changes no key of b's map other than that one, nor b's counter or stack.
C17_ForeignHandleActsOnOwnKeyOnly ==
    [][\A a, b \in Threads :
          (a # b /\ lastOp'.t = b /\ lastOp'.op \in HandleCalls)
          => \A h \in IssuedTo(a) \cap HandleArgs :
                ( \/ EndKernel("end", b, h)
                  \/ kokkosp_destroy_profile_section(b, Narrow32(h))
                  \/ kokkosp_start_profile_section(b, Narrow32(h))
                  \/ kokkosp_stop_profile_section(b, Narrow32(h)) )
                => /\ UNCHANGED RegistryOf(a)
                   /\ h \notin DOMAIN profile_map[b]
                      => (UNCHANGED RegistryOf(b) /\ lastOp'.removed = {})
                   /\ unique_id'[b] = unique_id[b]
                   /\ profile_stack'[b] = profile_stack[b]
                   /\ \A k \in DOMAIN profile_map[b] \ {h} :
                         /\ k \in DOMAIN profile_map'[b]
                         /\ profile_map'[b][k] = profile_map[b][k]
                   /\ \A k \in DOMAIN profile_map'[b] : k \in DOMAIN profile_map[b]
                   /\ lastOp'.hit = (h \in DOMAIN profile_map[b])]_vars

\* T2 has made a handle call that found a session of its own and took it
\* out, while T1, which was handed the same value, still holds its session
\* under it, running
C17_Witness ==
    /\ lastOp.t = "T2"
    /\ lastOp.op \in HandleCalls
    /\ lastOp.hit
    /\ lastOp.removed # {}
    /\ IssuedTo("T1") \cap IssuedTo("T2") # {}
    /\ \E h \in IssuedTo("T1") \cap IssuedTo("T2") :
          /\ h \in DOMAIN profile_map["T1"]
          /\ profile_map["T1"][h].running
          /\ h \notin DOMAIN profile_map["T2"]

\* C18: finalize on a thread changes, of the registry, only that thread's
\* map: its region stack stays as it was, with every bundle on it still
\* running, its counter keeps its value, and the maps, stacks and counters
\* of the other threads are untouched; so the identifiers a thread is
\* handed, before and after a finalize, are all different.
C18_FinalizeTouchesOnlyCallersMap ==
    /\ [](\A t \in Threads : \A i, j \in DOMAIN issued[t] :
            i # j => issued[t][i] # issued[t][j])
    /\ [][\A t \in Threads :
            (lastOp'.op = "finalize" /\ lastOp'.t = t)
            => /\ UNCHANGED <<unique_id, section_map, profile_stack>>
               /\ \A i \in DOMAIN profile_stack'[t] : profile_stack'[t][i].running
               /\ \A u \in Threads \ {t} : profile_map'[u] = profile_map[u]
               /\ profile_map'[t] = EmptyMap]_vars

\* finalize has swept a session from the map of a thread whose counter has
\* advanced and whose stack holds a region that is still running
C18_Witness ==
    \E t \in Threads :
        /\ lastOp.op = "finalize" /\ lastOp.t = t
        /\ lastOp.removed # {}
        /\ unique_id[t] # U64Zero
        /\ profile_stack[t] # <<>>
        /\ \A i \in DOMAIN profile_stack[t] : profile_stack[t][i].running

====
